---- MODULE Spec2Model ----
(***************************************************************************)
(* Perception layer of sentinel-map: PerceptionPipeline.process_video,     *)
(* extract_gps_from_frame and extract_roi_patch                            *)
(* (src/modules/perception/detect_and_extract.py).                         *)
(*                                                                         *)
(* Numbers.  Python floats are modelled as exact fixed-point values.  A    *)
(* coordinate is a record [hi, lo] that stands for hi*1e-4 + lo*1e-8       *)
(* degrees with 0 <= lo < 10000 (two limbs keep every value inside TLC's   *)
(* 32-bit integers).  A heading is an integer number of 1e-3 degrees.      *)
(* Text is a sequence of one-character strings.                            *)
(***************************************************************************)
EXTENDS Integers, Sequences, FiniteSets, TLC

(***************************************************************************)
(* State                                                                   *)
(***************************************************************************)
VARIABLES
    pc,               \* position in process_video: Idle, Read, Gps, Detect,
                      \* Boxes, Completed, Failed (Unit* in SpecGps)
    run,              \* process_video calls made on this instance
    error,            \* the exception that ended the call, "none" otherwise
    stats,            \* the returned dict, None before the return
    target_classes,   \* self.target_classes
    inference_times,  \* self.inference_times: per sample, the call it is of
    cap,              \* the VideoCapture of the call: none, open, released
    cursor,           \* frames cap.read() has returned in this call
    video_fps, sample_fps, frame_interval,
    csv,              \* content of the file at output_csv, a list of rows
    csv_file,         \* the file object of the call: none, open, closed
    patches,          \* files of output_patches_dir: [name, run]
    frame_count, processed_count, detection_count,
    gps,              \* (vehicle_lat, vehicle_lon, heading) of the frame
    results,          \* the detections of the frame not yet visited
    gpsCalls,         \* history: frame numbers given to extract_gps_from_frame
    detCalls,         \* history: frame numbers given to the detector
    qualifying,       \* history: detections of a target class returned
    returned,         \* history: raw detections returned in all calls
    gpsCall,          \* history: input of the last extract_gps_from_frame
    gpsPrev,          \* history: the call before it (SpecGps)
    roiCall,          \* history: input and crop of the last extract_roi_patch
    tile              \* download_tile: retry, the attempt of the loop, the
                      \* outcomes of the requests made, and how it ended

vars == <<pc, run, error, stats, target_classes, inference_times, cap, cursor,
          video_fps, sample_fps, frame_interval, csv, csv_file, patches,
          frame_count, processed_count, detection_count, gps, results,
          gpsCalls, detCalls, qualifying, returned, gpsCall, gpsPrev,
          roiCall, tile>>

selfVars == <<target_classes, inference_times>>
streamVars == <<cap, cursor, video_fps, sample_fps, frame_interval>>
outVars == <<csv, csv_file, patches>>
countVars == <<frame_count, processed_count, detection_count>>
gpsUnitVars == <<gpsCall, gpsPrev>>

Max(a, b) == IF a >= b THEN a ELSE b
Min(a, b) == IF a <= b THEN a ELSE b

(***************************************************************************)
(* Fixed-point coordinates                                                 *)
(***************************************************************************)
Num(hi, lo) == [hi |-> hi + (lo \div 10000), lo |-> lo % 10000]

NumNeg(x) == IF x.lo = 0 THEN [hi |-> -x.hi, lo |-> 0]
             ELSE [hi |-> -x.hi - 1, lo |-> 10000 - x.lo]

NumIsNeg(x) == x.hi < 0

NumAbs(x) == IF NumIsNeg(x) THEN NumNeg(x) ELSE x

NumLeq(x, y) == \/ x.hi < y.hi
                \/ x.hi = y.hi /\ x.lo <= y.lo

(***************************************************************************)
(* Characters and the regular expressions of extract_gps_from_frame        *)
(***************************************************************************)
Digits == {"0", "1", "2", "3", "4", "5", "6", "7", "8", "9"}

\* \s of Python's re: blank, newline and the other white space (tab).
WhiteSpace == {" ", "\n", "\t"}

DigitVal(c) == CASE c = "0" -> 0 [] c = "1" -> 1 [] c = "2" -> 2
                 [] c = "3" -> 3 [] c = "4" -> 4 [] c = "5" -> 5
                 [] c = "6" -> 6 [] c = "7" -> 7 [] c = "8" -> 8
                 [] c = "9" -> 9

\* str.upper(), and the folding of re.IGNORECASE, on the letters involved
Upper(c) == CASE c = "n" -> "N" [] c = "s" -> "S" [] c = "e" -> "E"
              [] c = "w" -> "W" [] c = "k" -> "K" [] c = "m" -> "M"
              [] c = "h" -> "H" [] OTHER -> c

InClass(t, i, cls) == i >= 1 /\ i <= Len(t) /\ t[i] \in cls

\* end (exclusive) of the longest run of characters of cls that starts at i
RECURSIVE SkipClass(_, _, _)
SkipClass(t, i, cls) == IF InClass(t, i, cls) THEN SkipClass(t, i + 1, cls) ELSE i

\* (\d+\.?\s*\d+) matched at position a, greedy with backtracking: the end
\* (exclusive) of the group, 0 when there is no match at a.  d1 is the end
\* of the first run of digits, b the place where the second run must start.
AfterDot(t, d1) == IF InClass(t, d1, {"."}) THEN d1 + 1 ELSE d1

GroupEnd(t, a, d1, b) ==
    IF d1 = a THEN 0
    ELSE IF InClass(t, b, Digits) THEN SkipClass(t, b, Digits)
    ELSE IF d1 - a >= 2 THEN d1
    ELSE 0

GroupEndAfter(t, a, d1) ==
    GroupEnd(t, a, d1, SkipClass(t, AfterDot(t, d1), WhiteSpace))

NumGroupEnd(t, a) == GroupEndAfter(t, a, SkipClass(t, a, Digits))

\* [markers]\s*(\d+\.?\s*\d+) matched with the marker at position i; the
\* group starts at a and ends before e
MarkerMatch(t, i, markers, a, e) ==
    [ok |-> i <= Len(t) /\ Upper(t[i]) \in markers /\ e # 0,
     start |-> i, gstart |-> a, end |-> e]

MarkerMatchFrom(t, i, markers, a) ==
    MarkerMatch(t, i, markers, a, NumGroupEnd(t, a))

MarkerMatchAt(t, i, markers) ==
    MarkerMatchFrom(t, i, markers, SkipClass(t, i + 1, WhiteSpace))

Leftmost(hits) == CHOOSE i \in hits : \A j \in hits : i <= j

NoMatch == [ok |-> FALSE, start |-> 0, gstart |-> 0, end |-> 0]

\* re.search(pattern, text, re.IGNORECASE): the leftmost match, ok = FALSE
\* when there is none.
MarkerSearchIn(t, markers, hits) ==
    IF hits = {} THEN NoMatch ELSE MarkerMatchAt(t, Leftmost(hits), markers)

MarkerSearch(t, markers) ==
    MarkerSearchIn(t, markers,
                   {i \in 1..Len(t) : MarkerMatchAt(t, i, markers).ok})

\* (\d+)\s*KM/H matched with the digits at positions i..d-1, KM/H at b
SpeedMatch(t, i, d, b) ==
    [ok |-> /\ d > i
            /\ b + 3 <= Len(t)
            /\ Upper(t[b]) = "K" /\ Upper(t[b + 1]) = "M"
            /\ t[b + 2] = "/" /\ Upper(t[b + 3]) = "H",
     start |-> i, gstart |-> i, end |-> d]

SpeedMatchFrom(t, i, d) == SpeedMatch(t, i, d, SkipClass(t, d, WhiteSpace))

SpeedMatchAt(t, i) == SpeedMatchFrom(t, i, SkipClass(t, i, Digits))

SpeedSearchIn(t, hits) ==
    IF hits = {} THEN NoMatch ELSE SpeedMatchAt(t, Leftmost(hits))

SpeedSearch(t) == SpeedSearchIn(t, {i \in 1..Len(t) : SpeedMatchAt(t, i).ok})

\* match.group(1).replace(' ', '').replace('\n', '')
StripBlanks(s) == SelectSeq(s, LAMBDA c : c \notin {" ", "\n"})

\* value of a run of digits
RECURSIVE DigitsValue(_)
DigitsValue(s) == IF s = <<>> THEN 0
                  ELSE DigitsValue(SubSeq(s, 1, Len(s) - 1)) * 10 + DigitVal(s[Len(s)])

\* the first k fraction digits as a count of 10^-k
RECURSIVE FracValue(_, _)
FracValue(s, k) == IF k = 0 THEN 0
                   ELSE IF s = <<>> THEN 0
                   ELSE DigitVal(Head(s)) * (10 ^ (k - 1)) + FracValue(Tail(s), k - 1)

\* float(s) succeeds on digits with at most one dot in between
FloatOk(s) == /\ s # <<>>
              /\ \A i \in 1..Len(s) : s[i] \in Digits \cup {"."}
              /\ Cardinality({i \in 1..Len(s) : s[i] = "."}) <= 1
              /\ \E i \in 1..Len(s) : s[i] \in Digits

\* position of the dot of s, Len(s) + 1 when it has none
DotAt(s) == IF \E i \in 1..Len(s) : s[i] = "."
            THEN CHOOSE i \in 1..Len(s) : s[i] = "."
            ELSE Len(s) + 1

\* whole + frac * 1e-8 as a coordinate
FloatFrom(whole, frac) == Num(whole * 10000 + (frac \div 10000), frac % 10000)

FloatAt(s, p) == FloatFrom(DigitsValue(SubSeq(s, 1, p - 1)),
                           FracValue(SubSeq(s, p + 1, Len(s)), 8))

\* float(s) as a coordinate (fraction digits beyond the eighth dropped)
FloatNum(s) == FloatAt(s, DotAt(s))

(***************************************************************************)
(* extract_gps_from_frame                                                  *)
(***************************************************************************)
\* An optional value (Python's None) is the empty sequence, a value x is <<x>>.
None == <<>>
Some(x) == <<x>>

\* lines 98-99 and 106-107: -abs(x) when the letter is in match.group(0)
HasLetter(g0, letter) == \E k \in 1..Len(g0) : Upper(g0[k]) = letter

Signed(x, negative) == IF negative THEN NumNeg(NumAbs(x)) ELSE x

\* lines 95-99 and 103-107 for the match m, str being group(1) without
\* blanks and newlines; exc when float() raises ValueError
ParseCoord(t, m, str, letter) ==
    IF ~m.ok THEN [exc |-> FALSE, val |-> None]
    ELSE IF ~FloatOk(str) THEN [exc |-> TRUE, val |-> None]
    ELSE [exc |-> FALSE,
          val |-> Some(Signed(FloatNum(str),
                              HasLetter(SubSeq(t, m.start, m.end - 1), letter)))]

ParseMatch(t, m, letter) ==
    ParseCoord(t, m, StripBlanks(SubSeq(t, m.gstart, m.end - 1)), letter)

\* lines 93-99: the latitude
ParseLat(t) == ParseMatch(t, MarkerSearch(t, {"N", "S"}), "S")

\* lines 101-107: the longitude
ParseLon(t) == ParseMatch(t, MarkerSearch(t, {"E", "W"}), "W")

\* lines 109-112: the speed, used as the heading (1e-3 degrees)
HeadingOf(t, m) ==
    IF ~m.ok THEN None
    ELSE Some(DigitsValue(SubSeq(t, m.start, m.end - 1)) * 1000)

ParseHeading(t) == HeadingOf(t, SpeedSearch(t))

\* variant: the drift is accumulated from the fix of the call before
FallbackFixAccumulated(frame_number) ==
    IF gps.lat = None
    THEN [lat |-> Some(Num(437900, frame_number)),
          lon |-> Some(Num(-793140, frame_number)),
          heading |-> Some((45000 + 25 * frame_number) % 360000),
          raised |-> FALSE]
    ELSE [lat |-> Some(Num(gps.lat[1].hi, gps.lat[1].lo + 1)),
          lon |-> Some(Num(gps.lon[1].hi, gps.lon[1].lo + 1)),
          heading |-> Some((gps.heading[1] + 25) % 360000),
          raised |-> FALSE]

\* lines 122-132: the simulated drift
FallbackFix(frame_number) ==
    [lat |-> Some(Num(437900, frame_number)),
     lon |-> Some(Num(-793140, frame_number)),
     heading |-> Some((45000 + 25 * frame_number) % 360000),
     raised |-> FALSE]

\* line 116: the decoded fix
DecodedFix(lat, lon, heading) ==
    [lat |-> lat, lon |-> lon,
     heading |-> IF heading # None THEN heading ELSE Some(0),
     raised |-> FALSE]

\* variant: a latitude alone is taken for a decoded fix
OcrSucceededLatOnly(lat, lon) == lat # None

\* line 115: the test that selects the decoded fix
OcrSucceeded(lat, lon) == lat # None /\ lon # None

\* lines 114-132 and 118-120: an exception of the parse is swallowed
SelectFix(lat, lon, heading, frame_number) ==
    IF lat.exc \/ lon.exc THEN FallbackFix(frame_number)
    ELSE IF OcrSucceeded(lat.val, lon.val) THEN DecodedFix(lat.val, lon.val, heading)
    ELSE FallbackFix(frame_number)

\* lines 70-132.  ocr is what the try block meets: pytesseract missing
\* ("import_error"), an exception while cropping or recognising ("error"),
\* or the recognised text.
ExtractGpsFromFrame(ocr, frame_number) ==
    IF ocr.kind # "text" THEN FallbackFix(frame_number)
    ELSE SelectFix(ParseLat(ocr.text), ParseLon(ocr.text),
                   ParseHeading(ocr.text), frame_number)

(***************************************************************************)
(* extract_roi_patch                                                       *)
(***************************************************************************)
\* number of elements of the numpy slice [a:b] of an axis of length n
SliceLen(a, b, n) ==
    LET lo == IF a < 0 THEN Max(0, n + a) ELSE Min(a, n)
        hi == IF b < 0 THEN Max(0, n + b) ELSE Min(b, n)
    IN  Max(0, hi - lo)

\* variant: the window is not clipped at the left and top edges
CropWindowUnclipped(bbox, w, h) ==
    LET x1 == bbox[1]
        y1 == bbox[2]
        x2 == bbox[3]
        y2 == bbox[4]
        center_x == (x1 + x2) \div 2
        center_y == (y1 + y2) \div 2
        half_size == Max(x2 - x1, y2 - y1) \div 2
    IN  [half_size |-> half_size, center_x |-> center_x, center_y |-> center_y,
         crop_x1 |-> center_x - half_size,
         crop_y1 |-> center_y - half_size,
         crop_x2 |-> Min(w, center_x + half_size),
         crop_y2 |-> Min(h, center_y + half_size)]

\* lines 150-164: the crop window of bbox in a frame of width w, height h
CropWindow(bbox, w, h) ==
    LET x1 == bbox[1]
        y1 == bbox[2]
        x2 == bbox[3]
        y2 == bbox[4]
        center_x == (x1 + x2) \div 2
        center_y == (y1 + y2) \div 2
        half_size == Max(x2 - x1, y2 - y1) \div 2
    IN  [half_size |-> half_size, center_x |-> center_x, center_y |-> center_y,
         crop_x1 |-> Max(0, center_x - half_size),
         crop_y1 |-> Max(0, center_y - half_size),
         crop_x2 |-> Min(w, center_x + half_size),
         crop_y2 |-> Min(h, center_y + half_size)]

\* line 164: the shape (rows, columns) of frame[crop_y1:crop_y2, crop_x1:crop_x2]
PatchShape(bbox, w, h) ==
    LET c == CropWindow(bbox, w, h)
    IN  [rows |-> SliceLen(c.crop_y1, c.crop_y2, h),
         cols |-> SliceLen(c.crop_x1, c.crop_x2, w)]

\* line 167: cv2.resize raises cv2.error on an empty source image
ResizeRaises(bbox, w, h) ==
    LET p == PatchShape(bbox, w, h) IN p.rows = 0 \/ p.cols = 0

(***************************************************************************)
(* process_video: bounds and inputs                                        *)
(***************************************************************************)
\* frames a video stream holds at most
MaxFrames == 3
\* native frame rates 0..MaxFps (int(cap.get(CAP_PROP_FPS)) is 0 for a
\* stream that reports no rate)
MaxFps == 3
\* sample_fps 1..MaxSampleFps
MaxSampleFps == 2
\* process_video calls on one pipeline instance
MaxRuns == 2
\* raw detections the detector returns in all, and for one frame
MaxDetections == 2
MaxBoxes == 2

\* shape of the frames of the modelled videos
Frame == [w |-> 100, h |-> 100]

\* a box well inside the frame and a box one pixel wide and high
Boxes == {<<10, 20, 51, 80>>, <<5, 5, 6, 6>>}
Classes == {"stop sign", "car"}
\* line 48: the default target classes
DefaultTargetClasses == {"stop sign", "traffic light"}
\* confidence in 1e-4
RawDetections == [bbox : Boxes, confidence : {9000}, class_name : Classes]

SeqsUpTo(S, n) == UNION {[1..k -> S] : k \in 0..n}

\* What the try block of extract_gps_from_frame meets on a frame: pytesseract
\* missing ("import_error"), an exception while cropping or recognising
\* ("error"), or recognition working ("text").  text is what pytesseract
\* reads on the plain binary threshold of the overlay (lines 82-86);
\* inverted and adaptive are what it would read on the inverted and on the
\* adaptive threshold of the same overlay (test_gps_ocr.py, lines 47-51).
OcrInput(kind, text, inverted, adaptive) ==
    [kind |-> kind, text |-> text, inverted |-> inverted, adaptive |-> adaptive]

FailOcr == {OcrInput("import_error", <<>>, <<>>, <<>>),
            OcrInput("error", <<>>, <<>>, <<>>)}
\* overlays on which only the plain threshold reads anything
TextOcr(T) == {OcrInput("text", t, <<>>, <<>>) : t \in T}

\* "40 KM/H N43.792879 W79.314193" and a text without a longitude
PipelineTexts ==
    {<<"4", "0", " ", "K", "M", "/", "H", " ", "N", "4", "3", ".", "7", "9",
       "2", "8", "7", "9", " ", "W", "7", "9", ".", "3", "1", "4", "1", "9",
       "3">>,
     <<"N", "4", "3", ".", "7">>}
PipelineOcr == {OcrInput("import_error", <<>>, <<>>, <<>>)} \cup TextOcr(PipelineTexts)

(***************************************************************************)
(* process_video: rows, names, statistics                                  *)
(***************************************************************************)
\* line 198
FrameInterval(fps, sfps) == Max(1, fps \div sfps)

\* variant: the last frame of every interval is kept instead of the first
IsSampledLast(count, interval) == (count + 1) % interval = 0

\* line 227: the frame is processed, not skipped
IsSampled(count, interval) == count % interval = 0

\* line 251
InTargetClasses(class_name, targets) == class_name \in targets

\* variant: the half is taken with integer division
BottomCenterTruncated(bbox) ==
    [u |-> ((bbox[1] + bbox[3]) \div 2) * 100, v |-> bbox[4] * 100]

\* lines 255-256, in 1e-2 pixels
BottomCenter(bbox) == [u |-> (bbox[1] + bbox[3]) * 50, v |-> bbox[4] * 100]

\* f"{n:0{width}d}" for n >= 0: the decimal digits of n, zero-padded on the
\* left to width characters at least
DigitChar(d) == CHOOSE c \in Digits : DigitVal(c) = d

RECURSIVE DecimalDigits(_)
DecimalDigits(n) == IF n < 10 THEN <<DigitChar(n)>>
                    ELSE Append(DecimalDigits(n \div 10), DigitChar(n % 10))

ZeroPad(ds, width) ==
    [i \in 1..(Max(width, Len(ds)) - Len(ds)) |-> "0"] \o ds

\* variant: the patch is named after its frame alone
PatchFilenameByFrame(count, ordinal) ==
    <<"frame_">> \o ZeroPad(DecimalDigits(count), 6) \o <<"_det_">>
        \o ZeroPad(DecimalDigits(0), 4) \o <<".jpg">>

\* line 260: frame_{frame_count:06d}_det_{detection_count:04d}.jpg
PatchFilename(count, ordinal) ==
    <<"frame_">> \o ZeroPad(DecimalDigits(count), 6) \o <<"_det_">>
        \o ZeroPad(DecimalDigits(ordinal), 4) \o <<".jpg">>

\* round(n / d) for n >= 0, d > 0
RoundDiv(n, d) == (2 * n + d) \div (2 * d)

\* f"{x:.6f}" of a coordinate, in 1e-6
Format6(x) == x.hi * 100 + RoundDiv(x.lo, 100)

\* lines 209-213
Header == <<"frame_number", "timestamp_sec", "u", "v", "confidence",
            "class_name", "vehicle_lat", "vehicle_lon", "heading">>

\* variant: the timestamp is taken from the record counter
CsvRowTimedByRecord(count, fps, det, fix) ==
    <<count, RoundDiv(detection_count * 1000, fps), BottomCenter(det.bbox).u,
      BottomCenter(det.bbox).v, det.confidence, det.class_name,
      Format6(fix.lat[1]), Format6(fix.lon[1]), RoundDiv(fix.heading[1], 100)>>

\* lines 265-276; the timestamp in 1e-3 s, the heading in 1e-1 degrees
CsvRow(count, fps, det, fix) ==
    <<count, RoundDiv(count * 1000, fps), BottomCenter(det.bbox).u,
      BottomCenter(det.bbox).v, det.confidence, det.class_name,
      Format6(fix.lat[1]), Format6(fix.lon[1]), RoundDiv(fix.heading[1], 100)>>

(***************************************************************************)
(* Initial state                                                           *)
(***************************************************************************)
NoFix == [lat |-> None, lon |-> None, heading |-> None, raised |-> FALSE]
NoCall == [ocr |-> OcrInput("none", <<>>, <<>>, <<>>), frame_number |-> 0,
           out |-> NoFix]

\* line 138: patch_size
PatchSize == 256

\* lines 167-169: the shape of the patch returned, None when resize raises
ResizedShape(bbox, w, h) ==
    IF ResizeRaises(bbox, w, h) THEN None
    ELSE Some([rows |-> PatchSize, cols |-> PatchSize])

\* lines 150-167 on bbox in a frame of width w and height h: the crop window,
\* the shape of the crop, and whether cv2.resize raises on it
RoiCallOf(bbox, w, h) ==
    [called |-> TRUE, bbox |-> bbox, w |-> w, h |-> h,
     window |-> CropWindow(bbox, w, h),
     shape |-> PatchShape(bbox, w, h),
     raised |-> ResizeRaises(bbox, w, h),
     patch |-> ResizedShape(bbox, w, h)]

NoRoiCall == [called |-> FALSE, bbox |-> <<0, 0, 0, 0>>, w |-> 0, h |-> 0,
              window |-> CropWindow(<<0, 0, 0, 0>>, 0, 0),
              shape |-> PatchShape(<<0, 0, 0, 0>>, 0, 0),
              raised |-> FALSE,
              patch |-> None]

\* no download_tile call under way
NoTile == [retry |-> 0, attempt |-> 0, log |-> <<>>, status |-> "none",
           value |-> None, error |-> "none"]

\* lines 29-53: a constructed pipeline, nothing processed yet
InitPipeline ==
    /\ run = 0
    /\ error = "none"
    /\ stats = None
    /\ inference_times = <<>>
    /\ cap = "none"
    /\ cursor = 0
    /\ video_fps = 0 /\ sample_fps = 1 /\ frame_interval = 1
    /\ csv = <<>>
    /\ csv_file = "none"
    /\ patches = {}
    /\ frame_count = 0 /\ processed_count = 0 /\ detection_count = 0
    /\ gps = NoFix
    /\ results = <<>>
    /\ gpsCalls = <<>> /\ detCalls = <<>>
    /\ qualifying = 0 /\ returned = 0
    /\ gpsCall = NoCall /\ gpsPrev = NoCall
    /\ roiCall = NoRoiCall

Init ==
    /\ pc = "Idle"
    /\ target_classes = DefaultTargetClasses
    /\ InitPipeline
    /\ tile = NoTile

(***************************************************************************)
(* process_video                                                           *)
(***************************************************************************)
Callable == pc \in {"Idle", "Completed", "Failed"} /\ run < MaxRuns

\* a new activation: its locals and the histories of the call
EnterCall ==
    /\ run' = run + 1
    /\ stats' = None
    /\ cursor' = 0
    /\ frame_count' = 0 /\ processed_count' = 0 /\ detection_count' = 0
    /\ gps' = NoFix
    /\ results' = <<>>
    /\ gpsCalls' = <<>> /\ detCalls' = <<>>
    /\ qualifying' = 0
    /\ gpsCall' = NoCall
    /\ roiCall' = NoRoiCall

\* variant: the CSV is created before the video is found unopenable
ProcessVideoOpenFailsLate ==
    /\ Callable
    /\ EnterCall
    /\ pc' = "Failed"
    /\ error' = "ValueError"
    /\ cap' = "none"
    /\ csv_file' = "open"
    /\ csv' = <<Header>>
    /\ UNCHANGED <<video_fps, sample_fps, frame_interval, patches>>
    /\ UNCHANGED <<selfVars, returned, gpsPrev, tile>>

\* lines 192-194: the video cannot be opened
ProcessVideoOpenFails ==
    /\ Callable
    /\ EnterCall
    /\ pc' = "Failed"
    /\ error' = "ValueError"
    /\ cap' = "none"
    /\ csv_file' = "none"
    /\ UNCHANGED <<video_fps, sample_fps, frame_interval, csv, patches>>
    /\ UNCHANGED <<selfVars, returned, gpsPrev, tile>>

\* variant: the CSV is opened for appending
ProcessVideoOpensAppending ==
    /\ Callable
    /\ EnterCall
    /\ pc' = "Read"
    /\ error' = "none"
    /\ cap' = "open"
    /\ \E fps \in 0..MaxFps, sfps \in 1..MaxSampleFps :
          /\ video_fps' = fps
          /\ sample_fps' = sfps
          /\ frame_interval' = FrameInterval(fps, sfps)
    /\ csv_file' = "open"
    /\ csv' = Append(csv, Header)
    /\ UNCHANGED <<patches, selfVars, returned, gpsPrev, tile>>

\* lines 192-219: the video opens; the CSV is truncated and gets its header
ProcessVideoOpens ==
    /\ Callable
    /\ EnterCall
    /\ pc' = "Read"
    /\ error' = "none"
    /\ cap' = "open"
    /\ \E fps \in 0..MaxFps, sfps \in 1..MaxSampleFps :
          /\ video_fps' = fps
          /\ sample_fps' = sfps
          /\ frame_interval' = FrameInterval(fps, sfps)
    /\ csv_file' = "open"
    /\ csv' = <<Header>>
    /\ UNCHANGED <<patches, selfVars, returned, gpsPrev, tile>>

\* lines 292-306: the returned statistics
Stats ==
    [total_frames |-> frame_count,
     processed_frames |-> processed_count,
     total_detections |-> detection_count,
     inference_samples |-> inference_times]

\* lines 222-224 and 289-321: the stream is exhausted
ReadExhausted ==
    /\ pc = "Read"
    /\ pc' = "Completed"
    /\ cap' = "released"
    /\ csv_file' = "closed"
    /\ stats' = Some(Stats)
    /\ UNCHANGED <<run, error, selfVars, cursor, video_fps, sample_fps,
                   frame_interval, csv, patches, countVars, gps, results,
                   gpsCalls, detCalls, qualifying, returned, gpsUnitVars, roiCall, tile>>

\* variant: a skipped frame is not counted
ReadSkippedUncounted ==
    /\ pc = "Read"
    /\ cursor < MaxFrames
    /\ ~IsSampled(frame_count, frame_interval)
    /\ cursor' = cursor + 1
    /\ UNCHANGED <<pc, run, error, stats, selfVars, cap, video_fps, sample_fps,
                   frame_interval, outVars, countVars, gps, results, gpsCalls,
                   detCalls, qualifying, returned, gpsUnitVars, roiCall, tile>>

\* lines 222-229: a frame is read and skipped
ReadSkipped ==
    /\ pc = "Read"
    /\ cursor < MaxFrames
    /\ ~IsSampled(frame_count, frame_interval)
    /\ cursor' = cursor + 1
    /\ frame_count' = frame_count + 1
    /\ UNCHANGED <<pc, run, error, stats, selfVars, cap, video_fps, sample_fps,
                   frame_interval, outVars, processed_count, detection_count,
                   gps, results, gpsCalls, detCalls, qualifying, returned,
                   gpsUnitVars, roiCall, tile>>

\* lines 222-227: a frame is read and kept
ReadSampled ==
    /\ pc = "Read"
    /\ cursor < MaxFrames
    /\ IsSampled(frame_count, frame_interval)
    /\ cursor' = cursor + 1
    /\ pc' = "Gps"
    /\ UNCHANGED <<run, error, stats, selfVars, cap, video_fps, sample_fps,
                   frame_interval, outVars, countVars, gps, results, gpsCalls,
                   detCalls, qualifying, returned, gpsUnitVars, roiCall, tile>>

\* line 232
GpsReturns(ocr, frame_number, fix) ==
    /\ gps' = fix
    /\ gpsCall' = [ocr |-> ocr, frame_number |-> frame_number, out |-> fix]

ExtractGps ==
    /\ pc = "Gps"
    /\ \E ocr \in PipelineOcr :
          GpsReturns(ocr, frame_count, ExtractGpsFromFrame(ocr, frame_count))
    /\ pc' = IF gps'.raised THEN "Failed" ELSE "Detect"
    /\ error' = IF gps'.raised THEN "GpsError" ELSE error
    /\ gpsCalls' = Append(gpsCalls, frame_count)
    /\ UNCHANGED <<run, stats, selfVars, streamVars, outVars, countVars,
                   results, detCalls, qualifying, returned, gpsPrev, roiCall, tile>>

\* lines 235-238: the detector returns its boxes
DetectReturns ==
    /\ pc = "Detect"
    /\ \E boxes \in SeqsUpTo(RawDetections, Min(MaxBoxes, MaxDetections - returned)) :
          /\ returned' = returned + Len(boxes)
          /\ results' = boxes
          /\ qualifying' = qualifying
               + Cardinality({i \in 1..Len(boxes) :
                                InTargetClasses(boxes[i].class_name, target_classes)})
    /\ inference_times' = Append(inference_times, run)
    /\ detCalls' = Append(detCalls, frame_count)
    /\ pc' = "Boxes"
    /\ UNCHANGED <<run, error, stats, target_classes, streamVars, outVars,
                   countVars, gps, gpsCalls, gpsUnitVars, roiCall, tile>>

\* variant: the output of the call is rolled back when the detector raises
DetectRaisesRollback ==
    /\ pc = "Detect"
    /\ detCalls' = Append(detCalls, frame_count)
    /\ pc' = "Failed"
    /\ error' = "DetectionCapabilityError"
    /\ csv' = <<Header>>
    /\ patches' = {f \in patches : f.run # run}
    /\ UNCHANGED <<run, stats, selfVars, streamVars, csv_file, countVars, gps,
                   results, gpsCalls, qualifying, returned, gpsUnitVars, roiCall, tile>>

\* line 236: the detector raises
DetectRaises ==
    /\ pc = "Detect"
    /\ detCalls' = Append(detCalls, frame_count)
    /\ pc' = "Failed"
    /\ error' = "DetectionCapabilityError"
    /\ UNCHANGED <<run, stats, selfVars, streamVars, outVars, countVars, gps,
                   results, gpsCalls, qualifying, returned, gpsUnitVars, roiCall, tile>>

\* line 262, cv2.imwrite(patch_path, patch): the file of that name is
\* replaced when the write succeeds ("ok"); a write that fails returns False
\* without raising and leaves no file ("false"); the returned value is
\* ignored.
WritePatch(outcome) ==
    IF outcome = "ok"
    THEN {f \in patches : f.name # PatchFilename(frame_count, detection_count)}
           \cup {[name |-> PatchFilename(frame_count, detection_count), run |-> run]}
    ELSE patches

Fails(kind) ==
    /\ pc' = "Failed"
    /\ error' = kind

\* lines 243-252: a detection outside the target classes is passed over
DiscardDetection ==
    /\ pc = "Boxes"
    /\ results # <<>>
    /\ ~InTargetClasses(Head(results).class_name, target_classes)
    /\ results' = Tail(results)
    /\ UNCHANGED <<pc, run, error, stats, selfVars, streamVars, outVars,
                   countVars, gps, gpsCalls, detCalls, qualifying, returned,
                   gpsUnitVars, roiCall, tile>>

\* lines 243-278: a detection of a target class becomes a patch and a row
EmitRecord ==
    /\ pc = "Boxes"
    /\ results # <<>>
    /\ InTargetClasses(Head(results).class_name, target_classes)
    /\ ~ResizeRaises(Head(results).bbox, Frame.w, Frame.h)
    /\ video_fps # 0
    /\ \E written \in {"ok", "false"} : patches' = WritePatch(written)
    /\ csv' = Append(csv, CsvRow(frame_count, video_fps, Head(results), gps))
    /\ detection_count' = detection_count + 1
    /\ results' = Tail(results)
    /\ UNCHANGED <<pc, run, error, stats, selfVars, streamVars, csv_file,
                   frame_count, processed_count, gps, gpsCalls, detCalls,
                   qualifying, returned, gpsUnitVars>>
    /\ roiCall' = RoiCallOf(Head(results).bbox, Frame.w, Frame.h)
    /\ UNCHANGED tile

\* lines 259 and 167: cv2.resize raises on the empty crop
ExtractPatchRaises ==
    /\ pc = "Boxes"
    /\ results # <<>>
    /\ InTargetClasses(Head(results).class_name, target_classes)
    /\ ResizeRaises(Head(results).bbox, Frame.w, Frame.h)
    /\ Fails("cv2.error")
    /\ UNCHANGED <<run, stats, selfVars, streamVars, outVars, countVars, gps,
                   results, gpsCalls, detCalls, qualifying, returned,
                   gpsUnitVars>>
    /\ roiCall' = RoiCallOf(Head(results).bbox, Frame.w, Frame.h)
    /\ UNCHANGED tile

\* line 265: frame_count / video_fps with video_fps = 0, after the patch
TimestampRaises ==
    /\ pc = "Boxes"
    /\ results # <<>>
    /\ InTargetClasses(Head(results).class_name, target_classes)
    /\ ~ResizeRaises(Head(results).bbox, Frame.w, Frame.h)
    /\ video_fps = 0
    /\ \E written \in {"ok", "false"} : patches' = WritePatch(written)
    /\ Fails("ZeroDivisionError")
    /\ UNCHANGED <<run, stats, selfVars, streamVars, csv, csv_file, countVars,
                   gps, results, gpsCalls, detCalls, qualifying, returned,
                   gpsUnitVars>>
    /\ roiCall' = RoiCallOf(Head(results).bbox, Frame.w, Frame.h)
    /\ UNCHANGED tile

\* line 266: csv_writer.writerow raises, after the patch
WriteRowRaises ==
    /\ pc = "Boxes"
    /\ results # <<>>
    /\ InTargetClasses(Head(results).class_name, target_classes)
    /\ ~ResizeRaises(Head(results).bbox, Frame.w, Frame.h)
    /\ video_fps # 0
    /\ \E written \in {"ok", "false"} : patches' = WritePatch(written)
    /\ Fails("OSError")
    /\ UNCHANGED <<run, stats, selfVars, streamVars, csv, csv_file, countVars,
                   gps, results, gpsCalls, detCalls, qualifying, returned,
                   gpsUnitVars>>
    /\ roiCall' = RoiCallOf(Head(results).bbox, Frame.w, Frame.h)
    /\ UNCHANGED tile

\* lines 280-281: the detections of the frame are done
EndFrame ==
    /\ pc = "Boxes"
    /\ results = <<>>
    /\ processed_count' = processed_count + 1
    /\ frame_count' = frame_count + 1
    /\ pc' = "Read"
    /\ UNCHANGED <<run, error, stats, selfVars, streamVars, outVars,
                   detection_count, gps, results, gpsCalls, detCalls,
                   qualifying, returned, gpsUnitVars, roiCall, tile>>

Next ==
    \/ ProcessVideoOpenFails
    \/ ProcessVideoOpens
    \/ ReadExhausted
    \/ ReadSkipped
    \/ ReadSampled
    \/ ExtractGps
    \/ DetectReturns
    \/ DetectRaises
    \/ DiscardDetection
    \/ EmitRecord
    \/ ExtractPatchRaises
    \/ TimestampRaises
    \/ WriteRowRaises
    \/ EndFrame

Spec == Init /\ [][Next]_vars

(***************************************************************************)
(* extract_gps_from_frame on its own: SpecGps                              *)
(***************************************************************************)
\* generated overlay texts: all texts of at most MaxTextLen characters
MaxTextLen == 6
TextAlphabet == {"N", "W", "4", "."}
\* digits a generated text holds at most: the parsed values stay inside
\* TLC's integers
MaxDigits == 4
\* frame numbers h*100 + r, h in 0..MaxHundreds, r in 0..MaxRemainder
MaxHundreds == 150
MaxRemainder == 1

OverlayTexts ==
    {
     \* "40 KM/H N43.792879 W79.314193"
     <<"4", "0", " ", "K", "M", "/", "H", " ", "N", "4", "3", ".", "7",
       "9", "2", "8", "7", "9", " ", "W", "7", "9", ".", "3", "1", "4",
       "1", "9", "3">>,
     \* "S43.7 W79.3"
     <<"S", "4", "3", ".", "7", " ", "W", "7", "9", ".", "3">>,
     \* "N43.7 E79.3"
     <<"N", "4", "3", ".", "7", " ", "E", "7", "9", ".", "3">>,
     \* "n43.7 w79.3"
     <<"n", "4", "3", ".", "7", " ", "w", "7", "9", ".", "3">>,
     \* "N43. 792879 W79. 314193"
     <<"N", "4", "3", ".", " ", "7", "9", "2", "8", "7", "9", " ", "W",
       "7", "9", ".", " ", "3", "1", "4", "1", "9", "3">>,
     \* "N43.\t7 W79.3"
     <<"N", "4", "3", ".", "\t", "7", " ", "W", "7", "9", ".", "3">>,
     \* "N43.\n7 W79.3"
     <<"N", "4", "3", ".", "\n", "7", " ", "W", "7", "9", ".", "3">>,
     \* "N43.7 W79.\t3"
     <<"N", "4", "3", ".", "7", " ", "W", "7", "9", ".", "\t", "3">>,
     \* "N43.7"
     <<"N", "4", "3", ".", "7">>,
     \* "W79.3"
     <<"W", "7", "9", ".", "3">>,
     \* "40 KM/H"
     <<"4", "0", " ", "K", "M", "/", "H">>,
     \* "400 km/h N43.7 W79.3"
     <<"4", "0", "0", " ", "k", "m", "/", "h", " ", "N", "4", "3", ".",
       "7", " ", "W", "7", "9", ".", "3">>,
     \* "N4 W7"
     <<"N", "4", " ", "W", "7">>,
     \* ""
     <<>>,
     \* "N 43.7 W 79.3"
     <<"N", " ", "4", "3", ".", "7", " ", "W", " ", "7", "9", ".", "3">>,
     \* "KM/H N43.7 W79.3"
     <<"K", "M", "/", "H", " ", "N", "4", "3", ".", "7", " ", "W", "7",
       "9", ".", "3">>,
     \* "W79.3 S43.7 40KM/H"
     <<"W", "7", "9", ".", "3", " ", "S", "4", "3", ".", "7", " ", "4",
       "0", "K", "M", "/", "H">>
    }

DigitCount(t) == Cardinality({i \in 1..Len(t) : t[i] \in Digits})
UnitTexts ==
    {t \in SeqsUpTo(TextAlphabet, MaxTextLen) : DigitCount(t) <= MaxDigits}
        \cup OverlayTexts
UnitFrames == {h * 100 + r : h \in 0..MaxHundreds, r \in 0..MaxRemainder}
\* the inputs of the calls that are followed by a second call
PairOcr == FailOcr \cup TextOcr(PipelineTexts)
\* overlays that the three thresholds read differently: "", "N43.7" and
\* "N43.7 W79.3" on each
VariantTexts ==
    {<<>>,
     <<"N", "4", "3", ".", "7">>,
     <<"N", "4", "3", ".", "7", " ", "W", "7", "9", ".", "3">>}
VariantOcr ==
    {OcrInput("text", p, i, a) : p \in VariantTexts, i \in VariantTexts,
                                 a \in VariantTexts}

InitGps ==
    /\ pc = "Unit0"
    /\ target_classes = DefaultTargetClasses
    /\ InitPipeline
    /\ tile = NoTile

pipelineVars == <<run, error, stats, target_classes, inference_times, cap,
                  cursor, video_fps, sample_fps, frame_interval, csv, csv_file,
                  patches, frame_count, processed_count, detection_count,
                  results, gpsCalls, detCalls, qualifying, returned>>

GpsCall(ocr, frame_number, next) ==
    /\ GpsReturns(ocr, frame_number, ExtractGpsFromFrame(ocr, frame_number))
    /\ gpsPrev' = gpsCall
    /\ pc' = next
    /\ UNCHANGED <<pipelineVars, roiCall, tile>>

\* one call on a recognised text
UnitCallText ==
    /\ pc = "Unit0"
    /\ \E ocr \in TextOcr(UnitTexts), n \in 0..MaxRemainder :
          GpsCall(ocr, n, "UnitDone")

\* one call on an overlay with three readings
UnitCallVariants ==
    /\ pc = "Unit0"
    /\ \E ocr \in VariantOcr, n \in 0..MaxRemainder :
          GpsCall(ocr, n, "UnitDone")

\* two calls in a row, the second on the same or a later frame number
UnitCallFirst ==
    /\ pc = "Unit0"
    /\ \E ocr \in PairOcr, n \in UnitFrames : GpsCall(ocr, n, "Unit1")

UnitCallSecond ==
    /\ pc = "Unit1"
    /\ \E ocr \in PairOcr, d \in {0, 1, 100} :
          GpsCall(ocr, gpsCall.frame_number + d, "UnitDone")

NextGps ==
    \/ UnitCallText
    \/ UnitCallVariants
    \/ UnitCallFirst
    \/ UnitCallSecond

SpecGps == InitGps /\ [][NextGps]_vars

(***************************************************************************)
(* extract_roi_patch on its own: SpecRoi                                   *)
(***************************************************************************)
\* frames of 1..MaxSide by 1..MaxSide pixels, and boxes with corners up to
\* MaxOutside pixels outside the largest of them
MaxSide == 4
MaxOutside == 2

RoiFrames == {[w |-> w, h |-> h] : w \in 1..MaxSide, h \in 1..MaxSide}
RoiCoords == (0 - MaxOutside)..(MaxSide + MaxOutside)
\* every bbox with x1 < x2 and y1 < y2
RoiBoxes ==
    {b \in RoiCoords \X RoiCoords \X RoiCoords \X RoiCoords :
        b[1] < b[3] /\ b[2] < b[4]}
\* boxes in the 100 x 100 frame
ExampleBoxes ==
    {<<0, 0, 20, 40>>, <<10, 20, 51, 80>>, <<5, 5, 6, 6>>, <<40, 40, 47, 45>>,
     <<90, 80, 110, 100>>, <<-30, 10, -10, 20>>, <<120, 10, 140, 20>>}

InitRoi ==
    /\ pc = "Roi0"
    /\ target_classes = DefaultTargetClasses
    /\ InitPipeline
    /\ tile = NoTile

RoiCall(bbox, w, h) ==
    /\ roiCall' = RoiCallOf(bbox, w, h)
    /\ pc' = "RoiDone"
    /\ UNCHANGED <<pipelineVars, gps, gpsUnitVars, tile>>

\* one call on a small frame
RoiCallSmall ==
    /\ pc = "Roi0"
    /\ \E f \in RoiFrames, b \in RoiBoxes : RoiCall(b, f.w, f.h)

\* one call on the 100 x 100 frame
RoiCallExample ==
    /\ pc = "Roi0"
    /\ \E b \in ExampleBoxes : RoiCall(b, Frame.w, Frame.h)

NextRoi ==
    \/ RoiCallSmall
    \/ RoiCallExample

SpecRoi == InitRoi /\ [][NextRoi]_vars

(***************************************************************************)
(* Properties                                                              *)
(***************************************************************************)
\* seq lists the members of S in increasing order
IncreasingListOf(seq, S) ==
    /\ Len(seq) = Cardinality(S)
    /\ {seq[i] : i \in 1..Len(seq)} = S
    /\ \A i \in 1..Len(seq) : \A j \in 1..Len(seq) : i < j => seq[i] < seq[j]

\* indices below n that are multiples of k
MultiplesBelow(n, k) == {i \in 0..(n - 1) : i % k = 0}

\* frames of the stream that have been read and handed to the GPS decoder,
\* and to the detector
GpsDue == IF pc = "Gps" THEN cursor - 1 ELSE cursor
DetectDue == IF pc \in {"Gps", "Detect"} THEN cursor - 1 ELSE cursor

\* C1: frame_interval is max(1, floor(R / S)), and the frames given to the
\* GPS decoder and to the detector are exactly the frames read so far whose
\* index is a multiple of frame_interval, in increasing order (R=30, S=1
\* gives the interval 30; S >= R gives 1, every frame).
C1_SamplingLaw ==
    (pc \notin {"Idle", "Unit0", "Unit1", "UnitDone"}) =>
        /\ frame_interval >= 1
        /\ (video_fps < sample_fps) => frame_interval = 1
        /\ (video_fps >= sample_fps) =>
              /\ frame_interval * sample_fps <= video_fps
              /\ video_fps < (frame_interval + 1) * sample_fps
        /\ FrameInterval(30, 1) = 30
        /\ IncreasingListOf(gpsCalls, MultiplesBelow(GpsDue, frame_interval))
        /\ IncreasingListOf(detCalls, MultiplesBelow(DetectDue, frame_interval))

\* a completed run at interval 2 over three frames: frames 0 and 2 processed
C1_Witness ==
    /\ pc = "Completed"
    /\ video_fps = 2 /\ sample_fps = 1
    /\ cursor = 3
    /\ gpsCalls = <<0, 2>> /\ detCalls = <<0, 2>>

\* patch files the current call has written
PatchesOfRun == {f \in patches : f.run = run}

\* C2: every detection visited yields a row and a patch exactly when its
\* class is a target class: a detection of another class leaves the CSV and
\* the patches alone and raises nothing, a detection of a target class adds
\* exactly one row and exactly one patch.
C2_FilterDecides ==
    [][(pc = "Boxes" /\ results # <<>>) =>
         IF InTargetClasses(Head(results).class_name, target_classes)
         THEN /\ Len(csv') = Len(csv) + 1
              /\ Cardinality(PatchesOfRun') = Cardinality(PatchesOfRun) + 1
         ELSE /\ csv' = csv
              /\ patches' = patches
              /\ pc' # "Failed"]_vars

\* C3: after a completed run the data rows, the patches written and
\* total_detections all equal the number of detections of a target class
\* on the sampled frames.
C3_CountsAgree ==
    (pc = "Completed") =>
        /\ Len(csv) - 1 = qualifying
        /\ Cardinality(PatchesOfRun) = qualifying
        /\ stats[1].total_detections = qualifying

\* C4: a run on a stream that opened ends Completed unless a detector or
\* I/O call raised: no other error ends it.
C4_OnlyDetectorOrIoFails ==
    (pc = "Failed") =>
        error \in {"ValueError", "DetectionCapabilityError", "OSError"}

\* C5: a call whose video cannot be opened raises the open error with the
\* CSV, the patches and the pipeline untouched and neither the GPS decoder
\* nor the detector invoked.
C5_OpenFailureWritesNothing ==
    [][(pc' = "Failed" /\ error' = "ValueError") =>
         /\ csv' = csv
         /\ patches' = patches
         /\ csv_file' = "none"
         /\ gpsCalls' = <<>>
         /\ detCalls' = <<>>
         /\ inference_times' = inference_times]_vars

\* the second call fails to open and the rows of the first are still there
C5_Witness ==
    /\ pc = "Failed" /\ error = "ValueError"
    /\ run = 2
    /\ Len(csv) = 2

\* C6: when the detector raises, the call fails with the detector's error,
\* the CSV and the patches are as they were before the frame, and nothing
\* more is read or emitted by that call.
C6_DetectorErrorKeepsOutput ==
    [][/\ (pc = "Detect" /\ pc' = "Failed") =>
            /\ error' = "DetectionCapabilityError"
            /\ csv' = csv
            /\ patches' = patches
       /\ (pc = "Failed" /\ error = "DetectionCapabilityError") =>
            run' = run + 1]_vars

\* the detector raises on frame 2 after a record of frame 0 was emitted
C6_Witness ==
    /\ pc = "Failed" /\ error = "DetectionCapabilityError"
    /\ detCalls = <<0, 2>>
    /\ Len(csv) = 2
    /\ Cardinality(PatchesOfRun) = 1

\* names of the patches that go with the rows of the CSV
RowPatchNames == {PatchFilename(csv[k + 1][1], k - 1) : k \in 1..(Len(csv) - 1)}

\* C7: in every state of a call that opened its CSV, the patches written by
\* the call are exactly the patches of the rows of the CSV.
C7_RowAndPatchTogether ==
    (csv_file # "none") => {f.name : f \in PatchesOfRun} = RowPatchNames

\* C8: a call that opened the video and has ended, completed or failed, has
\* released the video stream.
C8_StreamReleased ==
    (pc \in {"Completed", "Failed"} /\ cap # "none") => cap = "released"

\* the overlay text of the call gives both a latitude and a longitude
Decodes(lat, lon) == ~lat.exc /\ ~lon.exc /\ lat.val # None /\ lon.val # None

DecodesText(ocr) ==
    ocr.kind = "text" /\ Decodes(ParseLat(ocr.text), ParseLon(ocr.text))

\* the fix a call must return: the parsed pair with the parsed heading or
\* 0.0, the fallback of the frame number in every other case
ExpectedFix(c, lat, lon, heading) ==
    IF c.ocr.kind = "text" /\ Decodes(lat, lon)
    THEN /\ c.out.lat = lat.val
         /\ c.out.lon = lon.val
         /\ c.out.heading = (IF heading = None THEN Some(0) ELSE heading)
    ELSE c.out = FallbackFix(c.frame_number)

\* C9: extract_gps_from_frame never raises and returns a latitude and a
\* longitude: the parsed pair with the parsed heading (0.0 without a speed
\* token) when both are parsed, the fallback fix of the frame number when
\* OCR is unavailable, an exception occurs or one of the two is missing.
C9_NeverRaisesAlwaysPopulated ==
    (pc \in {"Unit1", "UnitDone"}) =>
        /\ ~gpsCall.out.raised
        /\ gpsCall.out.lat # None
        /\ gpsCall.out.lon # None
        /\ ExpectedFix(gpsCall, ParseLat(gpsCall.ocr.text),
                       ParseLon(gpsCall.ocr.text), ParseHeading(gpsCall.ocr.text))

\* "S43.7 W79.3": decoded without a speed token, heading 0.0, latitude < 0
C9_Witness ==
    /\ pc = "UnitDone"
    /\ gpsCall.ocr.text = <<"S", "4", "3", ".", "7", " ", "W", "7", "9", ".", "3">>
    /\ gpsCall.out.heading = Some(0)
    /\ NumIsNeg(gpsCall.out.lat[1])
    /\ NumIsNeg(gpsCall.out.lon[1])

\* the call took the fallback path
OnFallback(c) == c.ocr.kind # "none" /\ ~DecodesText(c.ocr)

\* lat = 43.7900 + n*1e-8, lon = -79.3140 + n*1e-8,
\* heading = (45.0 + n*0.025) mod 360 for the frame number n
ClosedForm(c) ==
    /\ (c.out.lat[1].hi - 437900) * 10000 + c.out.lat[1].lo = c.frame_number
    /\ (c.out.lon[1].hi + 793140) * 10000 + c.out.lon[1].lo = c.frame_number
    /\ c.out.heading[1] \in 0..359999
    /\ (45000 + 25 * c.frame_number - c.out.heading[1]) % 360000 = 0

C11_HeadingInRange ==
    (pc \in {"Unit1", "UnitDone"}) =>
        /\ gpsCall.out.heading # None
        /\ gpsCall.out.heading[1] >= 0
        /\ gpsCall.out.heading[1] < 360000

\* the number of a token with all the white space inside it removed, negative
\* when the marker of the token is negLetter
StripWhiteSpace(s) == SelectSeq(s, LAMBDA c : c \notin WhiteSpace)

TokenValue(t, m, negLetter) ==
    Signed(FloatNum(StripWhiteSpace(SubSeq(t, m.gstart, m.end - 1))),
           Upper(t[m.start]) = negLetter)

TokensDecoded(c, latm, lonm) ==
    (latm.ok /\ lonm.ok) =>
        /\ c.out.lat = Some(TokenValue(c.ocr.text, latm, "S"))
        /\ c.out.lon = Some(TokenValue(c.ocr.text, lonm, "W"))

SpecExampleText ==
    <<"4", "0", " ", "K", "M", "/", "H", " ", "N", "4", "3", ".", "7", "9",
      "2", "8", "7", "9", " ", "W", "7", "9", ".", "3", "1", "4", "1", "9",
      "3">>

SouthExampleText == <<"S", "4", "3", ".", "7", " ", "W", "7", "9", ".", "3">>

\* C12: on a text with a latitude token and a longitude token the decoded
\* latitude is the number of the token without its white space, negative
\* exactly when the marker is S, and the decoded longitude likewise with W;
\* "40 KM/H N43.792879 W79.314193" gives (43.792879, -79.314193, 40.0) and
\* "S43.7 W79.3" gives the latitude -43.7.
C12_MarkerGivesSign ==
    (pc \in {"Unit1", "UnitDone"} /\ gpsCall.ocr.kind = "text") =>
        /\ TokensDecoded(gpsCall, MarkerSearch(gpsCall.ocr.text, {"N", "S"}),
                         MarkerSearch(gpsCall.ocr.text, {"E", "W"}))
        /\ (gpsCall.ocr.text = SpecExampleText) =>
              /\ gpsCall.out.lat = Some([hi |-> 437928, lo |-> 7900])
              /\ gpsCall.out.lon = Some([hi |-> -793142, lo |-> 700])
              /\ gpsCall.out.heading = Some(40000)
        /\ (gpsCall.ocr.text = SouthExampleText) =>
              gpsCall.out.lat = Some([hi |-> -437000, lo |-> 0])

\* the readings of the overlay that hold the greatest count of digits
MostDigits(ocr) ==
    {v \in {ocr.text, ocr.inverted, ocr.adaptive} :
        \A u \in {ocr.text, ocr.inverted, ocr.adaptive} :
            DigitCount(u) <= DigitCount(v)}

\* C13: the decoder recognises the plain, the inverted and the adaptive
\* threshold of the overlay and parses a reading with the greatest count of
\* digits: the fix returned is the fix decoded from such a reading, no other
\* reading has strictly more digits than the one parsed.
C13_ParsesMostDigits ==
    (pc \in {"Unit1", "UnitDone"} /\ gpsCall.ocr.kind = "text") =>
        \E v \in MostDigits(gpsCall.ocr) :
            gpsCall.out = ExtractGpsFromFrame(OcrInput("text", v, <<>>, <<>>),
                                              gpsCall.frame_number)

\* the call of the example: bbox (0, 0, 20, 40) in a frame of 100 x 100
ExampleCall ==
    /\ pc = "RoiDone"
    /\ roiCall.w = 100 /\ roiCall.h = 100
    /\ roiCall.bbox = <<0, 0, 20, 40>>

HalfSizeAndCentre ==
    /\ roiCall.window.half_size = 20
    /\ roiCall.window.center_x = 10
    /\ roiCall.window.center_y = 20

\* C14 as stated: for bbox (0, 0, 20, 40) in a 100 x 100 frame the half-size
\* is 20, the centre (10, 20) and the clipped crop window x in [0, 40],
\* y in [0, 40], then resized to patch_size x patch_size.
C14_WindowAsStated ==
    ExampleCall =>
        /\ HalfSizeAndCentre
        /\ roiCall.window.crop_x1 = 0 /\ roiCall.window.crop_x2 = 40
        /\ roiCall.window.crop_y1 = 0 /\ roiCall.window.crop_y2 = 40
        /\ roiCall.patch = Some([rows |-> PatchSize, cols |-> PatchSize])

\* C14 amended: for bbox (0, 0, 20, 40) in a 100 x 100 frame the half-size
\* is 20, the centre (10, 20) and the clipped crop window x in [0, 30],
\* y in [0, 40], no coordinate negative, then resized to
\* patch_size x patch_size.
C14_WindowOfExample ==
    ExampleCall =>
        /\ HalfSizeAndCentre
        /\ roiCall.window.crop_x1 = 0 /\ roiCall.window.crop_x2 = 30
        /\ roiCall.window.crop_y1 = 0 /\ roiCall.window.crop_y2 = 40
        /\ roiCall.shape = [rows |-> 40, cols |-> 30]
        /\ roiCall.patch = Some([rows |-> PatchSize, cols |-> PatchSize])

\* the example call was made: 30 columns and 40 rows are cropped
C14_Witness ==
    /\ ExampleCall
    /\ roiCall.shape.cols = 30
    /\ roiCall.shape.rows = 40
    /\ ~roiCall.raised

\* width and height of the bbox of the call, and of its crop window
BoxWidth == roiCall.bbox[3] - roiCall.bbox[1]
BoxHeight == roiCall.bbox[4] - roiCall.bbox[2]
WindowWidth == roiCall.window.crop_x2 - roiCall.window.crop_x1
WindowHeight == roiCall.window.crop_y2 - roiCall.window.crop_y1

\* the window centre +- half_size lies inside the frame: nothing is clipped
WindowInsideFrame ==
    /\ roiCall.window.center_x - roiCall.window.half_size >= 0
    /\ roiCall.window.center_y - roiCall.window.half_size >= 0
    /\ roiCall.window.center_x + roiCall.window.half_size <= roiCall.w
    /\ roiCall.window.center_y + roiCall.window.half_size <= roiCall.h

\* C15: when the unclipped window lies inside the frame, the crop window is
\* square, its side is at least max(x2 - x1, y2 - y1), and it contains the
\* bbox along the longer dimension of the bbox.
C15_SquareContainsBox ==
    (pc = "RoiDone" /\ WindowInsideFrame) =>
        /\ WindowWidth = WindowHeight
        /\ WindowWidth >= Max(BoxWidth, BoxHeight)
        /\ (BoxWidth >= BoxHeight) =>
              /\ roiCall.window.crop_x1 <= roiCall.bbox[1]
              /\ roiCall.bbox[3] <= roiCall.window.crop_x2
        /\ (BoxHeight >= BoxWidth) =>
              /\ roiCall.window.crop_y1 <= roiCall.bbox[2]
              /\ roiCall.bbox[4] <= roiCall.window.crop_y2

\* C16: for every frame and every bbox with x1 < x2 and y1 < y2, inside the
\* frame or not, the crop window has 0 <= crop_x1 <= crop_x2 <= w and
\* 0 <= crop_y1 <= crop_y2 <= h.
C16_WindowInFrame ==
    (pc = "RoiDone") =>
        /\ 0 <= roiCall.window.crop_x1
        /\ roiCall.window.crop_x1 <= roiCall.window.crop_x2
        /\ roiCall.window.crop_x2 <= roiCall.w
        /\ 0 <= roiCall.window.crop_y1
        /\ roiCall.window.crop_y1 <= roiCall.window.crop_y2
        /\ roiCall.window.crop_y2 <= roiCall.h

\* C17: the statistics of a run are those of that run alone: when a run
\* completes, the inference samples its average is computed from are the
\* samples of that run, one per frame it processed, and its counters count
\* the frames and records of that run (they started at 0).
C17_StatsOfThisRun ==
    (pc = "Completed") =>
        /\ \A i \in 1..Len(stats[1].inference_samples) :
              stats[1].inference_samples[i] = run
        /\ Len(stats[1].inference_samples) = stats[1].processed_frames
        /\ stats[1].total_frames = cursor
        /\ stats[1].processed_frames = Len(detCalls)
        /\ stats[1].total_detections = Len(csv) - 1

\* inference samples appended by the current run
SamplesOfRun == {i \in 1..Len(inference_times) : inference_times[i] = run}

\* frames read that the loop is done with
FramesDone == IF pc \in {"Gps", "Detect", "Boxes"} THEN cursor - 1 ELSE cursor

\* C18: in a run, frame_count is the number of frames read (sampled or
\* skipped) once the frame is done with, processed_count the number of
\* sampled frames done with, detection_count the number of rows emitted, and
\* there is one inference sample per frame the detector returned on; so
\* processed_count <= frame_count, and a completed run on N frames reports
\* total_frames = N and processed_frames = ceil(N / frame_interval).
C18_CountersTrack ==
    /\ (pc \in {"Read", "Gps", "Detect", "Boxes", "Completed"}) =>
          /\ frame_count = FramesDone
          /\ processed_count = Cardinality(MultiplesBelow(frame_count, frame_interval))
          /\ detection_count = Len(csv) - 1
          /\ Cardinality(SamplesOfRun) = Len(detCalls)
          /\ Len(detCalls) = processed_count + (IF pc = "Boxes" THEN 1 ELSE 0)
    /\ (pc \notin {"Idle", "Unit0", "Unit1", "UnitDone", "Roi0", "RoiDone"}) =>
          processed_count <= frame_count
    /\ (pc = "Completed") =>
          /\ stats[1].total_frames = cursor
          /\ stats[1].processed_frames * frame_interval >= cursor
          /\ (stats[1].processed_frames - 1) * frame_interval < cursor
             \/ (stats[1].processed_frames = 0 /\ cursor = 0)
          /\ stats[1].total_detections = detection_count

\* three frames at interval 2 completed: two processed, one skipped, and a
\* record emitted
C18_Witness ==
    /\ pc = "Completed"
    /\ frame_interval = 2
    /\ stats[1].total_frames = 3
    /\ stats[1].processed_frames = 2
    /\ stats[1].total_detections = 1

\* the data rows of the CSV, and the columns a frame fixes: frame_number,
\* timestamp_sec, vehicle_lat, vehicle_lon, heading
DataRows == 2..Len(csv)
FrameColumns(row) == <<row[1], row[2], row[7], row[8], row[9]>>
NoRepeat(seq) ==
    \A i \in 1..Len(seq) : \A j \in 1..Len(seq) : i # j => seq[i] # seq[j]

\* C19: in a run the GPS decoder and the detector are each invoked once per
\* sampled frame and never on a skipped frame, both before a record of the
\* frame is emitted, and the records of one frame share their frame_number,
\* timestamp and fix, the fix the decoder returned for the frame.
C19_OncePerSampledFrame ==
    (pc \in {"Read", "Gps", "Detect", "Boxes", "Completed", "Failed"}
       /\ csv_file # "none") =>
        /\ NoRepeat(gpsCalls) /\ NoRepeat(detCalls)
        /\ \A i \in 1..Len(gpsCalls) : IsSampled(gpsCalls[i], frame_interval)
        /\ \A i \in 1..Len(detCalls) : IsSampled(detCalls[i], frame_interval)
        /\ \A i \in 1..Len(detCalls) : i <= Len(gpsCalls) /\ gpsCalls[i] = detCalls[i]
        /\ \A k \in DataRows :
              /\ \E i \in 1..Len(gpsCalls) : gpsCalls[i] = csv[k][1]
              /\ \E i \in 1..Len(detCalls) : detCalls[i] = csv[k][1]
        /\ \A k \in DataRows : \A m \in DataRows :
              csv[k][1] = csv[m][1] => FrameColumns(csv[k]) = FrameColumns(csv[m])
        /\ \A k \in DataRows :
              (pc = "Boxes" /\ csv[k][1] = frame_count) =>
                  /\ csv[k][7] = Format6(gps.lat[1])
                  /\ csv[k][8] = Format6(gps.lon[1])
                  /\ csv[k][9] = RoundDiv(gps.heading[1], 100)

\* two records of frame 2, after the skipped frame 1
C19_Witness ==
    /\ pc = "Boxes"
    /\ frame_count = 2
    /\ gpsCalls = <<0, 2>> /\ detCalls = <<0, 2>>
    /\ Len(csv) = 3
    /\ csv[2][1] = 2 /\ csv[3][1] = 2

\* the name the claim gives the patch of the record with this frame number
\* and this 0-based ordinal: "frame_", six digits, "_det_", four digits and
\* the extension
NamedAfter(name, frame_number, ordinal) ==
    /\ Len(name) = 13
    /\ name[1] = "frame_" /\ name[8] = "_det_" /\ name[13] = ".jpg"
    /\ \A i \in (2..7) \cup (9..12) : name[i] \in Digits
    /\ DigitsValue(SubSeq(name, 2, 7)) = frame_number
    /\ DigitsValue(SubSeq(name, 9, 12)) = ordinal

\* C20: the patch of a record is named frame_{frame_number:06d}_det_
\* {ordinal:04d}.jpg, the ordinal being the 0-based position of the record
\* among the records of the run, so the names of the records of a run are
\* pairwise distinct and depend on the records alone.
C20_PatchNames ==
    (pc \in {"Read", "Gps", "Detect", "Boxes", "Completed", "Failed"}
       /\ csv_file # "none") =>
        /\ \A f \in PatchesOfRun :
              \/ \E k \in DataRows : NamedAfter(f.name, csv[k][1], k - 2)
              \/ /\ pc = "Failed"
                 /\ NamedAfter(f.name, frame_count, detection_count)
        /\ \A k \in DataRows : NamedAfter(PatchFilename(csv[k][1], k - 2), csv[k][1], k - 2)
        /\ Cardinality(RowPatchNames) = Len(csv) - 1

\* two records of frame 2 with their two patches
C20_Witness ==
    /\ Len(csv) = 3
    /\ csv[2][1] = 2 /\ csv[3][1] = 2
    /\ Cardinality(PatchesOfRun) = 2
    /\ \E f \in PatchesOfRun : NamedAfter(f.name, 2, 1)

\* the row that a step appends to the CSV
RowAppended == pc = "Boxes" /\ results # <<>> /\ Len(csv') = Len(csv) + 1

\* C21: the record emitted for a bbox (x1, y1, x2, y2) has u = (x1 + x2) / 2,
\* the exact half, and v = y2 (columns u and v hold 1e-2 pixels); bbox
\* (10, 20, 50, 80) gives u = 30.0 and v = 80.0, and an odd x1 + x2 gives a u
\* that ends in .5.
C21_BottomCentre ==
    [][RowAppended =>
         /\ 2 * csv'[Len(csv')][3] = 100 * (Head(results).bbox[1] + Head(results).bbox[3])
         /\ csv'[Len(csv')][4] = 100 * Head(results).bbox[4]
         /\ ((Head(results).bbox[1] + Head(results).bbox[3]) % 2 = 1) =>
               csv'[Len(csv')][3] % 100 = 50
         /\ BottomCenter(<<10, 20, 50, 80>>) = [u |-> 3000, v |-> 8000]]_vars

\* the record of bbox (10, 20, 51, 80): u = 30.50, v = 80.00
C21_Witness ==
    /\ Len(csv) >= 2
    /\ csv[2][3] = 3050
    /\ csv[2][4] = 8000
    /\ roiCall.bbox = <<10, 20, 51, 80>>

\* the bbox of the call lies entirely inside the frame
BoxInsideFrame ==
    /\ 0 <= roiCall.bbox[1] /\ roiCall.bbox[1] < roiCall.bbox[3]
    /\ roiCall.bbox[3] <= roiCall.w
    /\ 0 <= roiCall.bbox[2] /\ roiCall.bbox[2] < roiCall.bbox[4]
    /\ roiCall.bbox[4] <= roiCall.h

\* C22: for a bbox with x1 < x2 and y1 < y2 inside the frame the crop window
\* has a width and a height of at least one pixel, the crop is not empty and
\* cv2.resize does not raise.
C22_CropNotEmpty ==
    (pc = "RoiDone" /\ BoxInsideFrame) =>
        /\ WindowWidth > 0
        /\ WindowHeight > 0
        /\ roiCall.shape.rows > 0 /\ roiCall.shape.cols > 0
        /\ ~roiCall.raised

\* the call is past the opening of its CSV
CsvOpened == pc \in {"Read", "Gps", "Detect", "Boxes", "Completed"}

\* C23: a run whose video opens starts the CSV anew whatever it held: the
\* file is the header alone right after the opening, the header stays its
\* first line and occurs once, and the data rows are the records of the run,
\* so that after a completed run the file is the header and that run's
\* records, none of an earlier run.
C23_CsvReplaced ==
    [][/\ (pc \in {"Idle", "Completed", "Failed"} /\ pc' = "Read") =>
             csv' = <<Header>>
       /\ CsvOpened' =>
             /\ csv'[1] = Header
             /\ \A k \in 2..Len(csv') : csv'[k][6] # Header[6]
             /\ Len(csv') - 1 = detection_count'
             /\ \A k \in 2..Len(csv') :
                   \E i \in 1..Len(detCalls') : detCalls'[i] = csv'[k][1]
       /\ (pc' = "Completed") =>
             Len(csv') - 1 = stats'[1].total_detections]_vars

\* the second run completed without a record after a first run that emitted
\* one: the CSV is the header alone
C23_Witness ==
    /\ pc = "Completed"
    /\ run = 2
    /\ csv = <<Header>>
    /\ \E f \in patches : f.run = 1

(***************************************************************************)
(* download_toronto_tiled.py: download_tile(bbox, retry).  One step of the  *)
(* model is one iteration of "for attempt in range(retry)": the request    *)
(* either answers, times out, or fails with another RequestException        *)
(* (raise_for_status included).                                             *)
(***************************************************************************)
MaxRetry == 4

\* the bodies an answered request can carry (response.content)
Contents == {"osm_a", "osm_b"}

\* the two except clauses of the loop
RequestErrors == {"Timeout", "RequestException"}

\* the call download_tile(bbox, retry = n) at the top of its loop
NewTile(n) == [retry |-> n, attempt |-> 0, log |-> <<>>, status |-> "running",
               value |-> None, error |-> "none"]

InitTile ==
    /\ pc = "Tile"
    /\ target_classes = DefaultTargetClasses
    /\ InitPipeline
    /\ tile \in {NewTile(n) : n \in 1..MaxRetry}

\* lines 65 and 71 negated: the else branch that re-raises
IsLastAttemptOffByOne(attempt, retry) == ~(attempt < retry - 2)
IsLastAttempt(attempt, retry) == ~(attempt < retry - 1)

\* lines 61-63: the request answers, its content is returned
TileAttemptSucceeds ==
    /\ pc = "Tile"
    /\ tile.status = "running"
    /\ tile.attempt < tile.retry
    /\ \E c \in Contents :
          tile' = [tile EXCEPT !.log = Append(@, [outcome |-> "ok", content |-> c]),
                               !.status = "returned",
                               !.value = Some(c)]
    /\ UNCHANGED <<pc, pipelineVars, gps, gpsUnitVars, roiCall>>

\* lines 64-67 and 70-73: a failure before the last attempt, sleep and go on
TileAttemptFailsRetried ==
    /\ pc = "Tile"
    /\ tile.status = "running"
    /\ tile.attempt < tile.retry
    /\ ~IsLastAttempt(tile.attempt, tile.retry)
    /\ \E e \in RequestErrors :
          tile' = [tile EXCEPT !.log = Append(@, [outcome |-> e, content |-> ""]),
                               !.attempt = @ + 1]
    /\ UNCHANGED <<pc, pipelineVars, gps, gpsUnitVars, roiCall>>

\* lines 68-69 and 74-75: a failure of the last attempt is re-raised
TileAttemptFailsRaised ==
    /\ pc = "Tile"
    /\ tile.status = "running"
    /\ tile.attempt < tile.retry
    /\ IsLastAttempt(tile.attempt, tile.retry)
    /\ \E e \in RequestErrors :
          tile' = [tile EXCEPT !.log = Append(@, [outcome |-> e, content |-> ""]),
                               !.status = "raised",
                               !.error = e]
    /\ UNCHANGED <<pc, pipelineVars, gps, gpsUnitVars, roiCall>>

NextTile ==
    \/ TileAttemptSucceeds
    \/ TileAttemptFailsRetried
    \/ TileAttemptFailsRaised

SpecTile == InitTile /\ [][NextTile]_vars

\* the requests made so far, and those of them that failed
Attempts == Len(tile.log)
AllFailed(n) == \A i \in 1..n : tile.log[i].outcome \in RequestErrors

\* C24: download_tile with retry = n >= 1 makes at most n requests; it
\* returns the content of the first request that answers and makes none after
\* it; it raises only when the n-th request has failed, all n having failed,
\* and then with the error of the n-th.
C24_RetryLaw ==
    (pc = "Tile") =>
        /\ tile.retry >= 1
        /\ Attempts <= tile.retry
        /\ AllFailed(Attempts - 1)
        /\ (tile.status = "returned") =>
              /\ Attempts >= 1
              /\ tile.log[Attempts].outcome = "ok"
              /\ tile.value = Some(tile.log[Attempts].content)
        /\ (tile.status = "raised") =>
              /\ Attempts = tile.retry
              /\ AllFailed(tile.retry)
              /\ tile.error = tile.log[tile.retry].outcome
        /\ (tile.status = "running") =>
              /\ Attempts < tile.retry
              /\ AllFailed(Attempts)

\* retry = 3: a time-out, another request error, then the third request is
\* answered and its content returned
C24_Witness ==
    /\ pc = "Tile"
    /\ tile.retry = 3
    /\ tile.status = "returned"
    /\ Attempts = 3
    /\ tile.log[1].outcome = "Timeout"
    /\ tile.log[2].outcome = "RequestException"
    /\ tile.value = Some("osm_b")

====
